---- MODULE Spec2Model ----
(***************************************************************************)
(* HypatIA-Bot: the retrieval-augmented orchestration pipeline.            *)
(*   - CourseSearchTool.handle (the result reconciler)                     *)
(*   - MainHypatiaAgent.handle_user_message with the Redis retrieval cache *)
(*   - LangroidAgentService.process_message / ChatController.process_message*)
(*   - DataSyncService (MySQL -> Qdrant synchronizer)                      *)
(***************************************************************************)
EXTENDS Integers, Sequences, FiniteSets, TLC

VARIABLES
    \* ---- reconciler (CourseSearchTool.handle) ----
    results,              \* the hit list returned by QdrantService.search_similar
    tool_output,          \* what CourseSearchTool.handle returned for it
    \* ---- synchronizer (DataSyncService) ----
    source,               \* rows of the relational source, per kind
    points,               \* the Qdrant collection: doc_id -> payload
    sync_pc,              \* position of the running sync_all_data
    sync_cursor,          \* index of the next row of the current kind
    sync_counts,          \* synced_count per kind of the running sync
    sync_result,          \* what sync_all_data returned
    sync_upserted,        \* history: the (kind, id) records whose upsert succeeded
    sync_failures,        \* history: how many per-record upserts failed
    db,                   \* MySQL: the producto, categoria and promocion tables
    today,                \* the current date (date.today(), CURDATE())
    index,                \* the Qdrant collection with the payload of each point
    jobs,                 \* the calls of sync_all_data / sync_incremental
    hist,                 \* history: what happened to the source and the calls
    \* ---- orchestration (MainHypatiaAgent, LangroidAgentService, ChatController) ----
    now,                  \* wall-clock time in seconds
    cache,                \* Redis: key -> [value, expires_at]
    stored_at,            \* history: key -> time of the last retrieval written to Redis
    main_agent,           \* LangroidAgentService.main_agent ("agent" or None)
    conversation_history, \* the conversation_history attribute of the three agents
    slots,                \* the turns suspended at an awaited generation call
    recent_context,       \* ChatController.recent_context: user -> turn window
    user_course_context,  \* ChatController.user_course_context: user -> course id
    appended,             \* history: user -> every turn appended to its window
    ev,                   \* history: what the last step did
    \* ---- /ws/chat (websocket_chat, WebSocketManager) ----
    active_connections,   \* WebSocketManager.active_connections
    ws_pc,                \* socket -> position of its websocket_chat handler
    ws_client,            \* socket -> whether its client is still connected
    ws_ev                 \* history: what the last step on the sockets did

reconVars == <<results, tool_output>>
dataVars  == <<db, today, index, jobs, hist>>
syncVars  == <<source, points, sync_pc, sync_cursor, sync_counts, sync_result,
               sync_upserted, sync_failures, db, today, index, jobs, hist>>
agentVars == <<now, cache, stored_at, main_agent, conversation_history, slots>>
chatVars  == <<recent_context, user_course_context, appended>>
wsVars    == <<active_connections, ws_pc, ws_client, ws_ev>>
vars == <<results, tool_output, source, points, sync_pc, sync_cursor, sync_counts,
          sync_result, sync_upserted, sync_failures, db, today, index, jobs, hist,
          now, cache, stored_at, main_agent,
          conversation_history, slots, recent_context, user_course_context, appended,
          ev, active_connections, ws_pc, ws_client, ws_ev>>

\* Python's None
NoneV == "None"

\* Python truthiness of a string-or-None value
Truthy(v) == v # NoneV /\ v # ""

\* the WebSocket objects of the run
Sockets == {"ws1", "ws2"}

NoWsEvent == [op |-> "none", socket |-> NoneV, sent_to |-> {}, dead |-> {}]

\* no client has opened /ws/chat yet
WsIdle ==
    /\ active_connections = {}
    /\ ws_pc = [s \in Sockets |-> "new"]
    /\ ws_client = [s \in Sockets |-> "open"]
    /\ ws_ev = NoWsEvent

(***************************************************************************)
(* CourseSearchTool.handle: the reconciler                                  *)
(***************************************************************************)

\* max_results: the limit of the general search
max_results == 5

\* the keys of tipo_count, in the insertion order of the dict literal
TipoOrder == <<"curso", "categoria", "promocion">>

TipoKeys == {TipoOrder[i] : i \in 1..Len(TipoOrder)}

\* the display names carried by the payloads of the hits, by hit id
Names == <<"n1", "n2", "n3", "n4", "n5", "n6", "n7">>

\* A hit as search_similar builds it: 'tipo' at top level, 'metadata' with an
\* optional 'type', and the payload ('full': the payload carries its display
\* fields; otherwise they are absent and render as N/A).
HitShapes ==
    {[tipo |-> t, mtype |-> NoneV, full |-> TRUE] :
        t \in {"curso", "categoria", "promocion", "producto"}}
    \cup {[tipo |-> "curso", mtype |-> NoneV, full |-> FALSE]}
    \cup {[tipo |-> NoneV, mtype |-> m, full |-> TRUE] : m \in {"categoria", NoneV}}

MkHit(i, s) ==
    [id |-> i, tipo |-> s.tipo, mtype |-> s.mtype,
     payload |-> IF s.full
                 THEN [titulo |-> Names[i], nombre |-> Names[i], disponible |-> (i % 2 = 1),
                       activa |-> TRUE]
                 ELSE [titulo |-> NoneV, nombre |-> NoneV, disponible |-> FALSE,
                       activa |-> TRUE]]

HitListsOfLen(n) == {[i \in 1..n |-> MkHit(i, f[i])] : f \in [1..n -> HitShapes]}

\* every list of at most limit hits
HitLists(limit) == UNION {HitListsOfLen(n) : n \in 0..limit}

\* tipo = result.get("tipo") or result.get("metadata", {}).get("type")
TipoOf(result) == IF Truthy(result.tipo) THEN result.tipo ELSE result.mtype

\* tipo_count after the tally loop
RECURSIVE CountTipo(_, _)
CountTipo(rs, k) ==
    IF rs = <<>> THEN 0
    ELSE (IF TipoOf(Head(rs)) = k THEN 1 ELSE 0) + CountTipo(Tail(rs), k)

TipoCount(rs) == [k \in TipoKeys |-> CountTipo(rs, k)]

\* max(tipo_count, key=tipo_count.get): the first key, in the order of the
\* dict, whose count is the largest
MaxKeyMutLast(count) ==
    LET i == CHOOSE i \in 1..Len(TipoOrder) :
                /\ \A j \in 1..Len(TipoOrder) : count[TipoOrder[j]] <= count[TipoOrder[i]]
                /\ \A j \in (i+1)..Len(TipoOrder) : count[TipoOrder[j]] < count[TipoOrder[i]]
    IN TipoOrder[i]

MaxKey(count) ==
    LET i == CHOOSE i \in 1..Len(TipoOrder) :
                /\ \A j \in 1..Len(TipoOrder) : count[TipoOrder[j]] <= count[TipoOrder[i]]
                /\ \A j \in 1..(i-1) : count[TipoOrder[j]] < count[TipoOrder[i]]
    IN TipoOrder[i]

\* tipo_predominante = max(...) if any(tipo_count.values()) else None
TipoPredominante(rs) ==
    LET count == TipoCount(rs)
    IN IF \E k \in TipoKeys : count[k] > 0 THEN MaxKey(count) ELSE NoneV

\* payload.get(key) or 'N/A'
FieldOrNA(v) == IF Truthy(v) THEN v ELSE "N/A"

\* the formatted block of one retained hit
BlockLabel(tipo) ==
    CASE tipo = "categoria" -> "Categoría"
      [] tipo = "curso"     -> "Curso"
      [] tipo = "promocion" -> "Promoción"

FormatBlock(result, tipo) ==
    [label |-> BlockLabel(tipo),
     hit   |-> result.id,
     name  |-> IF tipo = "curso" THEN FieldOrNA(result.payload.titulo)
               ELSE FieldOrNA(result.payload.nombre),
     disponible |-> IF tipo = "curso"
                    THEN (IF result.payload.disponible THEN "Sí" ELSE "No")
                    ELSE ""]

\* the mutant keeps every hit with a tallied kind, whatever the predominant one
KeepsHitMutAnyKind(result, pred) == pred # NoneV /\ TipoOf(result) \in TipoKeys

\* the if/elif chain: a block is rendered iff the hit is of the predominant kind
KeepsHit(result, pred) == pred \in TipoKeys /\ TipoOf(result) = pred

RECURSIVE FormattedResults(_, _)
FormattedResults(rs, pred) ==
    IF rs = <<>> THEN <<>>
    ELSE (IF KeepsHit(Head(rs), pred)
          THEN <<FormatBlock(Head(rs), TipoOf(Head(rs)))>>
          ELSE <<>>) \o FormattedResults(Tail(rs), pred)

\* the values a tool returns (strings in the code)
NoResults == [kind |-> "no_results", blocks |-> <<>>, err |-> ""]
BlocksOut(bs) == [kind |-> "blocks", blocks |-> bs, err |-> ""]
SearchError(e) == [kind |-> "search_error", blocks |-> <<>>, err |-> e]
NoOutput == [kind |-> "none", blocks |-> <<>>, err |-> ""]

\* the blocks are joined and returned without a test for none
ReconcileMutNoSentinel(rs) == BlocksOut(FormattedResults(rs, TipoPredominante(rs)))

\* the part of handle after the search returned rs
Reconcile(rs) ==
    IF rs = <<>> THEN NoResults
    ELSE LET formatted == FormattedResults(rs, TipoPredominante(rs))
         IN IF formatted = <<>> THEN NoResults ELSE BlocksOut(formatted)

\* CourseSearchTool.handle: embed the query, search, reconcile; any exception
\* (the embedder's) is caught and returned as an error string.  search_similar
\* never raises: it returns [] instead.
CourseSearchTool_handle(embed_error, search_results) ==
    IF embed_error # NoneV THEN SearchError(embed_error)
    ELSE Reconcile(search_results)

(***************************************************************************)
(* Messages, and the string operations the code applies to them            *)
(***************************************************************************)

\* A message text: 'text' is its lower-case, stripped form; 'upper' says it
\* is written in capitals, 'pad' that it carries surrounding blanks.
Texts == {"curso python", "promocion", "precio"}

AllMessages == [text : Texts, upper : BOOLEAN, pad : BOOLEAN]

Msg(t, u, p) == [text |-> t, upper |-> u, pad |-> p]

\* str.strip()
Strip(m) == [m EXCEPT !.pad = FALSE]

\* str.lower()
Lower(m) == [m EXCEPT !.upper = FALSE]

\* the words of a lower-case text
WordsOf(t) ==
    CASE t = "curso python" -> {"curso", "python"}
      [] t = "promocion"    -> {"promocion"}
      [] t = "precio"       -> {"precio"}

\* word in m  (a case-sensitive substring test on the literal text)
Contains(m, word) == ~m.upper /\ word \in WordsOf(m.text)

(***************************************************************************)
(* RedisCache and the cache key of handle_user_message                     *)
(***************************************************************************)

\* expire_seconds of the set in handle_user_message
CacheTTL == 600

\* the key without normalisation
CacheKeyMutLiteral(message) == [prefix |-> "cursos:busqueda:", digest |-> message]

\* f"cursos:busqueda:{sha256(message.strip().lower())}" (the digest stands for
\* its preimage: SHA-256 is taken as collision-free)
CacheKey(message) == [prefix |-> "cursos:busqueda:", digest |-> Lower(Strip(message))]

CacheKeys == {[prefix |-> "cursos:busqueda:", digest |-> m] : m \in AllMessages}

NoEntry == [value |-> NoOutput, expires_at |-> 0]

\* an entry that never expires
RedisGetMutNoExpiry(c, key, t) == c[key].value

\* RedisCache.get: the value, or None once the key has expired
RedisGet(c, key, t) == IF t < c[key].expires_at THEN c[key].value ELSE NoOutput

\* RedisCache.set: SETEX key expire_seconds value
RedisSet(c, key, value, expire_seconds, t) ==
    [c EXCEPT ![key] = [value |-> value, expires_at |-> t + expire_seconds]]

\* `if cached_result:` -- None and the empty string are falsy
StrTruthy(out) == out.kind \notin {"none", "empty"}

(***************************************************************************)
(* KnowledgeAgent, PromotionSearchTool, SalesAgent                         *)
(***************************************************************************)

\* QdrantService.search_similar: every failure (collection missing, transport
\* error) is caught and answered with []
SearchSimilar(transport_error, docs) == IF transport_error THEN <<>> ELSE docs

NoPromotions == [kind |-> "no_promotions", blocks |-> <<>>, err |-> ""]
KnowledgeError == [kind |-> "knowledge_error", blocks |-> <<>>, err |-> ""]
PromotionsOut(bs) == [kind |-> "promotions", blocks |-> bs, err |-> ""]

PromotionBlock(result) ==
    [label |-> "PROMOCIÓN", hit |-> result.id,
     name |-> IF Truthy(result.payload.nombre) THEN result.payload.nombre
              ELSE "Promoción sin descripción",
     disponible |-> ""]

\* PromotionSearchTool.handle: every hit of the filtered search is listed
PromotionSearchTool_handle(embed_error, search_results) ==
    IF embed_error # NoneV THEN KnowledgeError
    ELSE IF search_results = <<>> THEN NoPromotions
    ELSE PromotionsOut([i \in DOMAIN search_results |-> PromotionBlock(search_results[i])])

\* "promocion" in msg.lower() or "descuento" in ... or "oferta" in ...
IsPromotionQuery(msg) ==
    \E w \in {"promocion", "descuento", "oferta"} : Contains(Lower(msg), w)

\* KnowledgeAgent.handle_message_fallback
KnowledgeAgent_handle_message_fallback(msg, embed_error, search_results) ==
    IF IsPromotionQuery(msg)
    THEN PromotionSearchTool_handle(embed_error, search_results)
    ELSE CourseSearchTool_handle(embed_error, search_results)

\* SalesAgent.handle_message_fallback
SalesAgent_handle_message_fallback(msg) ==
    IF Contains(Lower(msg), "python")
    THEN "Sugerencias adicionales: frameworks"
    ELSE "Continuando con la conversación..."

(***************************************************************************)
(* Replies                                                                 *)
(***************************************************************************)
GeneratedAnswer == "respuesta generada"
AgentApology ==
    "Lo siento, hubo un error procesando tu consulta. Por favor intenta de nuevo."
ResetNotice ==
    "El contexto de la conversación era demasiado largo y ha sido reiniciado. Por favor, intenta de nuevo tu consulta."
ServiceApology ==
    "Lo siento, hubo un error procesando tu consulta. Por favor intenta de nuevo."
ServiceUnavailable ==
    "Lo siento, el sistema no está disponible en este momento. Por favor contacta al administrador."
ControllerApology ==
    "Lo siento, ocurrió un error procesando tu consulta. Por favor intenta nuevamente."

FixedReplies ==
    {AgentApology, ResetNotice, ServiceApology, ServiceUnavailable, ControllerApology}

\* a text shown to somebody: its fixed wording and the str(e) interpolated in it
Text(wording, exc) == [wording |-> wording, exc |-> exc]

\* the "message" of a result dict
NoMessage == Text("", "")
ProcessedMessage == Text("Mensaje procesado exitosamente", "")
UnavailableMessage == Text("El sistema de agentes no está disponible", "")

\* f"Error procesando mensaje: {str(e)}"
ErrorMessage(exc) == Text("Error procesando mensaje: ", exc)

\* what a call gives back to its caller: a value, or a raised exception
Returned(status, reply) ==
    [raised |-> FALSE, status |-> status, reply |-> reply, message |-> ProcessedMessage]
Raised(exc) == [raised |-> TRUE, status |-> "exception", reply |-> exc, message |-> NoMessage]
NoResult == [raised |-> FALSE, status |-> "none", reply |-> "", message |-> NoMessage]

\* a handler that lets the exception through
AgentExceptMutReraise(exc) == Raised(exc)

\* handle_user_message, `except Exception as e:` (lines 143-145 and 151-153)
AgentExcept(exc) == Returned("reply", AgentApology)

\* handle_user_message, `except Exception as e2:` of the retry
RetryExcept(exc) == Returned("reply", ResetNotice)

\* LangroidAgentService.process_message, `except Exception as e:`
ServiceExcept(exc) ==
    [Returned("error", ServiceApology) EXCEPT !.message = ErrorMessage(exc)]

\* ChatController.process_message, `except Exception as e:`
ControllerExcept(exc) ==
    [Returned("error", ControllerApology) EXCEPT !.message = ErrorMessage(exc)]

\* "shorten prompt history" in error_msg or "token len" in error_msg
IsContextTooLong(error_msg) ==
    error_msg \in {"prompt too long: shorten prompt history", "exceeds max token len"}

\* what llm_response_async can do: answer, or raise
LlmOutcomes == {"ok", "exceeds max token len", "rate limit exceeded"}

(***************************************************************************)
(* Users, windows, suspended turns                                         *)
(***************************************************************************)
Users == {"u1", "u2"}

\* `if user_id` -- None is falsy
UserTruthy(user) == user # NoneV

\* the bound of the turn window: recent_context[user_id][-4:]
WindowSize == 4

\* a window that keeps one more turn
LastTurnsMutFive(turns) ==
    IF Len(turns) <= WindowSize + 1 THEN turns
    ELSE SubSeq(turns, Len(turns) - WindowSize, Len(turns))

\* turns[-4:]
LastTurns(turns) ==
    IF Len(turns) <= WindowSize THEN turns
    ELSE SubSeq(turns, Len(turns) - WindowSize + 1, Len(turns))

UserTurn(message) == [role |-> "user", message |-> message.text]
BotTurn(reply) == [role |-> "bot", message |-> reply]

AgentNames == {"main", "knowledge", "sales"}

Slots == {1, 2}

IdleSlot ==
    [phase |-> "idle", entry |-> "none", user |-> NoneV,
     key |-> CacheKey(Msg("precio", FALSE, FALSE))]

\* the record of the last step
NoEvent ==
    [op |-> "none", user |-> NoneV, key |-> CacheKey(Msg("precio", FALSE, FALSE)),
     cache_hit |-> FALSE, retrieved |-> FALSE, failure |-> "none", stored |-> FALSE,
     fresh_since |-> -1, searches |-> <<>>, hits |-> <<>>, knowledge |-> NoOutput, gen_calls |-> 0,
     agent |-> NoResult, service |-> NoResult, controller |-> NoResult,
     chat_id |-> FALSE, svc_written |-> <<>>, ctl_written |-> <<>>]

OrchIdle ==
    /\ now = 0
    /\ cache = [k \in CacheKeys |-> NoEntry]
    /\ stored_at = [k \in CacheKeys |-> -1]
    /\ main_agent = "agent"
    /\ conversation_history = [a \in AgentNames |-> "absent"]
    /\ slots = [s \in Slots |-> IdleSlot]
    /\ recent_context = [u \in Users |-> <<>>]
    /\ user_course_context = [u \in Users \cup {NoneV} |-> NoneV]
    /\ appended = [u \in Users |-> <<>>]
    /\ ev = NoEvent

orchVars == <<now, cache, stored_at, main_agent, conversation_history, slots,
              recent_context, user_course_context, appended, ev>>

(***************************************************************************)
(* The reconciler applied to every hit list a search can return            *)
(***************************************************************************)
EmbedErrors == {"embedding model unavailable"}

NoCounts == [productos |-> 0, categorias |-> 0, promociones |-> 0]
NoSyncResult == [status |-> "none", synced_count |-> 0]

\* no table read, nothing indexed, no call made
DataIdle ==
    /\ db = [productos |-> <<>>, categorias |-> <<>>, promociones |-> <<>>]
    /\ today = 1
    /\ index = {}
    /\ jobs = <<>>
    /\ hist = [last |-> <<"none", 0>>]

SyncIdle ==
    /\ DataIdle
    /\ WsIdle
    /\ source = [productos |-> <<>>, categorias |-> <<>>, promociones |-> <<>>]
    /\ points = {}
    /\ sync_pc = "idle"
    /\ sync_cursor = 1
    /\ sync_counts = NoCounts
    /\ sync_result = NoSyncResult
    /\ sync_upserted = {}
    /\ sync_failures = 0

\* the search returns any list of up to max_results hits; handle runs once on it
InitReconcile ==
    /\ results \in HitLists(max_results)
    /\ tool_output = NoOutput
    /\ SyncIdle
    /\ OrchIdle

HandleSearch ==
    /\ tool_output = NoOutput
    /\ tool_output' = CourseSearchTool_handle(NoneV, results)
    /\ UNCHANGED <<results, syncVars, orchVars, wsVars>>

HandleEmbedFailure ==
    /\ tool_output = NoOutput
    /\ \E e \in EmbedErrors : tool_output' = CourseSearchTool_handle(e, results)
    /\ UNCHANGED <<results, syncVars, orchVars, wsVars>>

NextReconcile == HandleSearch \/ HandleEmbedFailure

SpecReconcile == InitReconcile /\ [][NextReconcile]_vars

\* ---- what the claims about the reconciler speak of ----
HitsOfKind(rs, k) == {i \in DOMAIN rs : TipoOf(rs[i]) = k}

\* the kinds that reach the highest (non-zero) hit count
TopKinds(rs) ==
    {k \in TipoKeys :
        /\ HitsOfKind(rs, k) # {}
        /\ \A k2 \in TipoKeys :
              Cardinality(HitsOfKind(rs, k2)) <= Cardinality(HitsOfKind(rs, k))}

\* the ids of the hits of kind k, in the order returned
IdsOfKind(rs, k) ==
    LET sel == SelectSeq(rs, LAMBDA r : TipoOf(r) = k)
    IN [i \in DOMAIN sel |-> sel[i].id]

BlockHits(out) == [i \in DOMAIN out.blocks |-> out.blocks[i].hit]

\* the kind the output was rendered for (the label of its blocks)
RenderedAs(out, k) == \A i \in DOMAIN out.blocks : out.blocks[i].label = BlockLabel(k)

\* C5: the output holds exactly one block per hit of the predominant kind, in the
\* order returned, and nothing rendered from a hit of another kind; a hit list
\* with a tallied kind never yields the sentinel.
C5_SameKindBlocks ==
    LET top == TopKinds(results)
    IN /\ tool_output.kind \in {"blocks", "no_results"} =>
             ((tool_output.kind = "blocks") <=> (top # {}))
       /\ tool_output.kind = "blocks" =>
             \E k \in top :
                /\ BlockHits(tool_output) = IdsOfKind(results, k)
                /\ RenderedAs(tool_output, k)

\* C5 witness: 3 item hits and 2 category hits give exactly the 3 item blocks
C5_Witness ==
    /\ Cardinality(HitsOfKind(results, "curso")) = 3
    /\ Cardinality(HitsOfKind(results, "categoria")) = 2
    /\ tool_output.kind = "blocks"
    /\ Len(tool_output.blocks) = 3
    /\ RenderedAs(tool_output, "curso")

\* the tied kind whose hit comes first in the hit list
FirstSeenKind(rs) ==
    LET top == TopKinds(rs)
        first == CHOOSE i \in DOMAIN rs :
                    /\ TipoOf(rs[i]) \in top
                    /\ \A j \in 1..(i-1) : TipoOf(rs[j]) \notin top
    IN TipoOf(rs[first])

\* the tied kind that comes first in the order of the tipo_count dict
FirstInDictOrder(rs) ==
    LET top == TopKinds(rs)
        first == CHOOSE i \in 1..Len(TipoOrder) :
                    /\ TipoOrder[i] \in top
                    /\ \A j \in 1..(i-1) : TipoOrder[j] \notin top
    IN TipoOrder[first]

\* C6 as claimed: on a tie for the highest count the predominant kind is the
\* tied kind that appears first in the hit list.
C6_FirstSeenTieBreak ==
    (tool_output.kind = "blocks" /\ Cardinality(TopKinds(results)) > 1)
        => RenderedAs(tool_output, FirstSeenKind(results))

\* C6 amended: on a tie for the highest count the predominant kind is the tied
\* kind that comes first in the fixed order curso, categoria, promocion,
\* whatever the order of the hit list.
C6_DictOrderTieBreak ==
    (tool_output.kind = "blocks" /\ Cardinality(TopKinds(results)) > 1)
        => /\ RenderedAs(tool_output, FirstInDictOrder(results))
           /\ BlockHits(tool_output) = IdsOfKind(results, FirstInDictOrder(results))

\* C6 witness: a 1-1 tie whose first hit is a category and which is rendered
\* as a course
C6_Witness ==
    /\ Len(results) = 2
    /\ TipoOf(results[1]) = "categoria"
    /\ TipoOf(results[2]) = "curso"
    /\ tool_output.kind = "blocks"
    /\ RenderedAs(tool_output, "curso")

(***************************************************************************)
(* DataSyncService.sync_all_data: MySQL -> Qdrant                          *)
(***************************************************************************)

\* the largest natural id of a source row, per kind
MaxRows == 10

\* how many per-record upsert failures one run is given
MaxSyncFailures == 1

\* doc_id = int(producto['id'])
ProductoDocId(id) == id

\* a categoria written under its natural id, like a producto
CategoriaDocIdMutNoOffset(id) == id

\* doc_id = int(categoria['id']) + 1000000
CategoriaDocId(id) == id + 1000000

\* doc_id = int(promocion['id']) + 2000000
PromocionDocId(id) == id + 2000000

SyncKinds == <<"productos", "categorias", "promociones">>

DocId(kind, id) ==
    CASE kind = "productos"   -> ProductoDocId(id)
      [] kind = "categorias"  -> CategoriaDocId(id)
      [] kind = "promociones" -> PromocionDocId(id)

\* metadata["type"] of the document written for a row of the kind
SyncType(kind) ==
    CASE kind = "productos"   -> "producto"
      [] kind = "categorias"  -> "categoria"
      [] kind = "promociones" -> "promocion"

\* a collection that keeps the old point next to the new one
UpsertPointMutAppend(pts, p) == pts \cup {p}

\* QdrantService.upsert_document: the point replaces the one with the same id
UpsertPoint(pts, p) == {q \in pts : q.doc_id # p.doc_id} \cup {p}

\* the rows of every table carry the natural ids 1..n
InitSync ==
    /\ \E n \in 0..MaxRows :
          source = [k \in {"productos", "categorias", "promociones"} |-> [i \in 1..n |-> i]]
    /\ points = {}
    /\ sync_pc = "idle"
    /\ sync_cursor = 1
    /\ sync_counts = NoCounts
    /\ sync_result = NoSyncResult
    /\ sync_upserted = {}
    /\ sync_failures = 0
    /\ DataIdle
    /\ WsIdle
    /\ results = <<>>
    /\ tool_output = NoOutput
    /\ OrchIdle

SyncError == [status |-> "error", synced_count |-> 0]

\* sync_all_data up to the first row: create the collection, open the
\* connection and fetch the productos; a failure of either is caught by
\* sync_all_data and returned as an error result
SyncAllDataBegin ==
    /\ sync_pc = "idle"
    /\ \E reachable \in BOOLEAN :
          IF reachable
          THEN /\ sync_pc' = "productos"
               /\ sync_result' = sync_result
          ELSE /\ sync_pc' = "done"
               /\ sync_result' = SyncError
    /\ sync_cursor' = 1
    /\ sync_counts' = NoCounts
    /\ UNCHANGED <<source, points, sync_upserted, sync_failures, dataVars, reconVars,
                   orchVars, wsVars>>

\* one iteration of the for loop of _sync_productos / _sync_categorias /
\* _sync_promociones: generate_embedding raises out of the loop (and out of
\* sync_all_data's try, as an error result); upsert_document catches its own
\* failure and returns False, which the loop does not look at
SyncRow(kind) ==
    /\ sync_pc = kind
    /\ sync_cursor <= Len(source[kind])
    /\ LET id == source[kind][sync_cursor]
           point == [doc_id |-> DocId(kind, id), tipo |-> SyncType(kind), id |-> id]
       IN \E embed_ok \in BOOLEAN, upsert_ok \in BOOLEAN :
             /\ (~upsert_ok) => (embed_ok /\ sync_failures < MaxSyncFailures)
             /\ IF ~embed_ok
                THEN /\ sync_pc' = "done"
                     /\ sync_result' = SyncError
                     /\ UNCHANGED <<points, sync_cursor, sync_counts, sync_upserted,
                                    sync_failures>>
                ELSE /\ points' = IF upsert_ok THEN UpsertPoint(points, point) ELSE points
                     /\ sync_upserted' = IF upsert_ok
                                         THEN sync_upserted \cup {<<kind, id>>}
                                         ELSE sync_upserted
                     /\ sync_failures' = IF upsert_ok THEN sync_failures
                                         ELSE sync_failures + 1
                     /\ sync_counts' = [sync_counts EXCEPT ![kind] = @ + 1]
                     /\ sync_cursor' = sync_cursor + 1
                     /\ UNCHANGED <<sync_pc, sync_result>>
    /\ UNCHANGED <<source, dataVars, reconVars, orchVars, wsVars>>

SyncProductoRow == SyncRow("productos")
SyncCategoriaRow == SyncRow("categorias")
SyncPromocionRow == SyncRow("promociones")

\* the loop of one kind is over: return its count; sync_all_data goes on to
\* the next kind (whose connection or query may fail) or returns the total
SyncKindDone ==
    /\ sync_pc \in {"productos", "categorias", "promociones"}
    /\ sync_cursor > Len(source[sync_pc])
    /\ IF sync_pc = "promociones"
       THEN /\ sync_pc' = "done"
            /\ sync_result' = [status |-> "success",
                               synced_count |-> sync_counts.productos
                                                + sync_counts.categorias
                                                + sync_counts.promociones]
       ELSE \E reachable \in BOOLEAN :
               IF reachable
               THEN /\ sync_pc' = IF sync_pc = "productos" THEN "categorias"
                                  ELSE "promociones"
                    /\ sync_result' = sync_result
               ELSE /\ sync_pc' = "done"
                    /\ sync_result' = SyncError
    /\ sync_cursor' = 1
    /\ UNCHANGED <<source, points, sync_counts, sync_upserted, sync_failures, dataVars,
                   reconVars, orchVars, wsVars>>

NextSync ==
    \/ SyncAllDataBegin
    \/ SyncProductoRow
    \/ SyncCategoriaRow
    \/ SyncPromocionRow
    \/ SyncKindDone

SpecSync == InitSync /\ [][NextSync]_vars

\* C10: items, categories and promotions sharing the natural ids 1..n never
\* collide in the VectorIndex: every record whose upsert succeeded is still
\* stored under its own id with its own kind and natural id, one point per
\* record (30 points for the ids 1..10 of each kind).
C10_IdsNeverCollide ==
    /\ Cardinality(points) = Cardinality(sync_upserted)
    /\ \A r \in sync_upserted :
          \E p \in points :
             /\ p.doc_id = DocId(r[1], r[2])
             /\ p.tipo = SyncType(r[1])
             /\ p.id = r[2]
    /\ \A n \in 1..MaxRows :
          Cardinality({ProductoDocId(n), CategoriaDocId(n), PromocionDocId(n)}) = 3

\* C10 witness: a complete run over ids 1..MaxRows of each kind left
\* 3 * MaxRows points
C10_Witness ==
    /\ sync_pc = "done"
    /\ sync_result.status = "success"
    /\ Len(source.productos) = MaxRows
    /\ Cardinality(points) = 3 * MaxRows
    /\ \A n \in 1..MaxRows :
          {<<"productos", n>>, <<"categorias", n>>, <<"promociones", n>>}
              \subseteq sync_upserted

(***************************************************************************)
(* MainHypatiaAgent.handle_user_message, LangroidAgentService and          *)
(* ChatController.process_message                                          *)
(***************************************************************************)

\* seconds between two observations of the clock
TickStep == 300

\* the clock stops here
MaxTime == 600

\* turns appended to the windows in one run of the controller
MaxTurns == 5

\* turns the controller appends in a run of the agent pipeline
MaxAgentChatTurns == 1

\* the hits a search of the populated collection returns for a message
CourseDocs ==
    [i \in 1..max_results |->
        MkHit(i, [tipo |-> IF i = 3 THEN "categoria" ELSE "curso",
                  mtype |-> NoneV, full |-> TRUE])]
PromoDocs == <<MkHit(6, [tipo |-> "promocion", mtype |-> NoneV, full |-> TRUE])>>

\* a promocion stored with activa = False
EndedPromo ==
    [MkHit(7, [tipo |-> "promocion", mtype |-> NoneV, full |-> TRUE])
        EXCEPT !.payload.activa = FALSE]

\* the populated collection, nearest first
Collection == CourseDocs \o PromoDocs \o <<EndedPromo>>

\* limit of the search of PromotionSearchTool
promotion_limit == 10

\* the arguments of the search of CourseSearchTool.handle: limit=max_results
CourseSearchRequest == [limit |-> max_results, filters |-> {}]

\* ... of PromotionSearchTool.handle: {"tipo": "promocion", "activa": True}
PromotionSearchRequest ==
    [limit |-> promotion_limit, filters |-> {"tipo=promocion", "activa=True"}]

\* every message is searched as a general query
SearchRequestMutGeneral(msg) == CourseSearchRequest

\* the search handle_message_fallback makes for a message
SearchRequest(msg) ==
    IF IsPromotionQuery(msg) THEN PromotionSearchRequest ELSE CourseSearchRequest

\* models.Filter(must=[FieldCondition(key, MatchValue(value))])
MatchesFilters(hit, filters) ==
    /\ "tipo=promocion" \in filters => hit.tipo = "promocion"
    /\ "activa=True" \in filters => hit.payload.activa

\* client.search(query_vector, limit, query_filter): the nearest `limit` points
\* among those the filter lets through
QdrantSearch(collection, request) ==
    LET found == SelectSeq(collection, LAMBDA hit : MatchesFilters(hit, request.filters))
    IN IF Len(found) <= request.limit THEN found ELSE SubSeq(found, 1, request.limit)

\* the collection is empty, or populated
SearchDocs(message) == {<<>>, QdrantSearch(Collection, SearchRequest(message))}

\* what the environment does during the synchronous part of a turn
Envs(message) ==
    [get_ok : BOOLEAN, set_ok : BOOLEAN, embed_error : {NoneV} \cup EmbedErrors,
     transport_error : BOOLEAN, docs : SearchDocs(message), context_error : BOOLEAN]

\* the environment's choices that the turn gets to see: a failed lookup ends
\* the turn, a hit skips the retrieval, a failed embedding skips the search, a
\* failed search returns nothing, only a known user has chat history to read
EnvSeen(message, user, env) ==
    LET hit == env.get_ok /\ StrTruthy(RedisGet(cache, CacheKey(message), now))
        stop == ~env.get_ok \/ hit
    IN /\ stop => (env.set_ok /\ env.embed_error = NoneV /\ ~env.transport_error)
       /\ (stop \/ env.embed_error # NoneV \/ env.transport_error) => env.docs = <<>>
       /\ env.embed_error # NoneV => ~env.transport_error
       /\ env.context_error => user # NoneV
       /\ (env.context_error \/ main_agent = NoneV) =>
             (env.get_ok /\ env.set_ok /\ env.embed_error = NoneV
              /\ ~env.transport_error /\ env.docs = <<>>)

\* persist_conversation: no caller passes False
persist_conversation == TRUE

\* handle_user_message from the cache lookup to the first await (lines 88-125):
\* what it leaves in Redis, and the exception it ran into, if any
HandleUserMessageStart(message, env) ==
    LET key == CacheKey(message)
        cached == RedisGet(cache, key, now)
        searches == IF env.embed_error # NoneV THEN <<>> ELSE <<SearchRequest(message)>>
        hits == IF env.embed_error # NoneV THEN <<>>
                ELSE SearchSimilar(env.transport_error, env.docs)
        fresh == KnowledgeAgent_handle_message_fallback(message, env.embed_error, hits)
        failure == IF env.embed_error # NoneV THEN "embed"
                   ELSE IF env.transport_error THEN "search" ELSE "none"
    IN IF ~env.get_ok
       THEN [exc |-> "redis get failed", cache |-> cache, cache_hit |-> FALSE,
             retrieved |-> FALSE, stored |-> FALSE, failure |-> "cache",
             searches |-> <<>>, hits |-> <<>>, knowledge |-> NoOutput]
       ELSE IF StrTruthy(cached)
       THEN [exc |-> NoneV, cache |-> cache, cache_hit |-> TRUE,
             retrieved |-> FALSE, stored |-> FALSE, failure |-> "none",
             searches |-> <<>>, hits |-> <<>>, knowledge |-> cached]
       ELSE IF ~env.set_ok
       THEN [exc |-> "redis set failed", cache |-> cache, cache_hit |-> FALSE,
             retrieved |-> TRUE, stored |-> FALSE, failure |-> "cache",
             searches |-> searches, hits |-> hits, knowledge |-> fresh]
       ELSE [exc |-> NoneV, cache |-> RedisSet(cache, key, fresh, CacheTTL, now),
             cache_hit |-> FALSE, retrieved |-> TRUE, stored |-> TRUE,
             failure |-> failure, searches |-> searches, hits |-> hits,
             knowledge |-> fresh]

\* LangroidAgentService.process_message after handle_user_message gave `agent`
\* (lines 92-124): the result dict, or the except branch
ServiceReturn(agent) ==
    IF agent.raised THEN ServiceExcept(agent.reply)
    ELSE Returned("success", agent.reply)

\* how the persistence of a turn by the service can go: not attempted (no user
\* id); no active chat (_get_or_create_active_chat swallowed an error and
\* returned None); both rows written; create_mensaje failed on the user row, or
\* on the bot row after the user row was committed
PersistOutcomes(user) ==
    IF user = NoneV THEN {"skipped"} ELSE {"no_chat", "ok", "fail_user", "fail_bot"}

\* the rows _persist_conversation committed before it returned (lines 152-190)
ServiceWrites(persist) ==
    CASE persist = "ok"       -> <<"usuario", "bot">>
      [] persist = "fail_bot" -> <<"usuario">>
      [] OTHER                -> <<>>

\* process_message lines 63-67 and 95-101: the chat id of the result, and what
\* _persist_conversation wrote; its exceptions are logged and dropped
WithPersist(e, persist) ==
    [e EXCEPT !.chat_id = persist \in {"ok", "fail_user", "fail_bot"},
              !.svc_written = ServiceWrites(persist)]

\* ChatController.process_message after the service call (lines 59-106), from
\* the windows rc / ap: stores the turn when the service returned no chat id,
\* appends the bot reply, returns
FinishTurn(entry, user, e, agent, service, store_error, rc, ap) ==
    IF entry = "chat"
    THEN LET stores == ~service.raised /\ user # NoneV /\ ~e.chat_id
             failed == service.raised \/ (stores /\ store_error)
             controller == IF service.raised THEN ControllerExcept(service.reply)
                           ELSE IF stores /\ store_error THEN ControllerExcept("db")
                           ELSE [Returned(service.status, service.reply)
                                    EXCEPT !.message = service.message]
             add == ~failed /\ user # NoneV
         IN /\ recent_context' =
                  IF add THEN [rc EXCEPT ![user] = LastTurns(Append(@, BotTurn(service.reply)))]
                  ELSE rc
            /\ appended' =
                  IF add THEN [ap EXCEPT ![user] = Append(@, BotTurn(service.reply))]
                  ELSE ap
            /\ ev' = [e EXCEPT !.agent = agent, !.service = service,
                               !.controller = controller,
                               !.ctl_written = IF stores /\ ~store_error
                                               THEN <<"usuario", "bot">> ELSE <<>>]
    ELSE /\ recent_context' = rc
         /\ appended' = ap
         /\ ev' = [e EXCEPT !.agent = agent, !.service = service]

\* LangroidAgentService.process_message (lines 47-90) and handle_user_message
\* up to its first await, for a turn that enters with the windows rc / ap
TurnStart(slot, entry, message, user, env, store_error, rc, ap) ==
    LET key == CacheKey(message)
        h == HandleUserMessageStart(message, env)
        e0 == [NoEvent EXCEPT !.op = "start", !.user = user, !.key = key,
                              !.fresh_since = stored_at[key]]
        e1 == [e0 EXCEPT !.cache_hit = h.cache_hit, !.retrieved = h.retrieved,
                         !.failure = h.failure, !.stored = h.stored,
                         !.searches = h.searches, !.hits = h.hits,
                         !.knowledge = h.knowledge]
    IN IF main_agent = NoneV
       THEN /\ FinishTurn(entry, user, [e0 EXCEPT !.op = "finish"], NoResult,
                          [Returned("error", ServiceUnavailable)
                              EXCEPT !.message = UnavailableMessage],
                          store_error, rc, ap)
            /\ UNCHANGED <<cache, stored_at, slots>>
       ELSE IF UserTruthy(user) /\ persist_conversation /\ env.context_error
       THEN /\ FinishTurn(entry, user, [e0 EXCEPT !.op = "finish"], NoResult,
                          ServiceExcept("db"), store_error, rc, ap)
            /\ UNCHANGED <<cache, stored_at, slots>>
       ELSE /\ cache' = h.cache
            /\ stored_at' = IF h.stored THEN [stored_at EXCEPT ![key] = now]
                            ELSE stored_at
            /\ IF h.exc # NoneV
               THEN /\ \E persist \in PersistOutcomes(user) :
                          FinishTurn(entry, user,
                                     WithPersist([e1 EXCEPT !.op = "finish"], persist),
                                     AgentExcept(h.exc), ServiceReturn(AgentExcept(h.exc)),
                                     store_error, rc, ap)
                    /\ UNCHANGED slots
               ELSE /\ slots' = [slots EXCEPT ![slot] =
                                   [phase |-> "gen1", entry |-> entry, user |-> user,
                                    key |-> key]]
                    /\ recent_context' = rc
                    /\ appended' = ap
                    /\ ev' = [e1 EXCEPT !.gen_calls = 1]

\* a caller of LangroidAgentService.process_message(message, user_id): the
\* websocket route (user_id None) or HypatiaLangroidAgent
LangroidProcessMessage(messages, users) ==
    \E slot \in Slots, message \in messages, user \in users :
       /\ slots[slot].phase = "idle"
       /\ \A other \in Slots : slots[other].phase = "idle" => slot <= other
       /\ \E env \in Envs(message) :
             /\ EnvSeen(message, user, env)
             /\ TurnStart(slot, "service", message, user, env, FALSE,
                          recent_context, appended)
       /\ UNCHANGED <<now, main_agent, conversation_history, user_course_context>>

\* the attribute is emptied only where hasattr finds it
ClearHistory(h) == IF h = "absent" THEN h ELSE "empty"

\* the first llm_response_async of a turn answers or raises (lines 126-145)
LlmResponse(outcomes) ==
    \E slot \in Slots, outcome \in outcomes :
       LET t == slots[slot]
           e == [NoEvent EXCEPT !.user = t.user, !.gen_calls = 1]
       IN /\ t.phase = "gen1"
          /\ IF outcome # "ok" /\ IsContextTooLong(outcome)
             THEN /\ conversation_history' =
                        [a \in AgentNames |-> ClearHistory(conversation_history[a])]
                  /\ slots' = [slots EXCEPT ![slot].phase = "gen2"]
                  /\ ev' = [e EXCEPT !.op = "context_reset", !.gen_calls = 2]
                  /\ UNCHANGED <<recent_context, appended>>
             ELSE /\ LET agent == IF outcome = "ok" THEN Returned("reply", GeneratedAnswer)
                                  ELSE AgentExcept(outcome)
                     IN \E store_error \in BOOLEAN, persist \in PersistOutcomes(t.user) :
                           FinishTurn(t.entry, t.user,
                                      WithPersist([e EXCEPT !.op = "finish"], persist),
                                      agent, ServiceReturn(agent), store_error,
                                      recent_context, appended)
                  /\ slots' = [slots EXCEPT ![slot] = IdleSlot]
                  /\ UNCHANGED conversation_history
          /\ UNCHANGED <<now, cache, stored_at, main_agent, user_course_context>>

\* the retry answers or raises (lines 138-142)
LlmRetryResponse ==
    \E slot \in Slots, outcome \in LlmOutcomes :
       LET t == slots[slot]
           e == [NoEvent EXCEPT !.op = "finish", !.user = t.user, !.gen_calls = 2]
           agent == IF outcome = "ok" THEN Returned("reply", GeneratedAnswer)
                    ELSE RetryExcept(outcome)
       IN /\ t.phase = "gen2"
          /\ \E store_error \in BOOLEAN, persist \in PersistOutcomes(t.user) :
                FinishTurn(t.entry, t.user, WithPersist(e, persist), agent,
                           ServiceReturn(agent), store_error, recent_context, appended)
          /\ slots' = [slots EXCEPT ![slot] = IdleSlot]
          /\ UNCHANGED <<now, cache, stored_at, main_agent, conversation_history,
                         user_course_context>>

\* time passes
Tick ==
    /\ now + TickStep <= MaxTime
    /\ now' = now + TickStep
    /\ ev' = [NoEvent EXCEPT !.op = "tick"]
    /\ UNCHANGED <<cache, stored_at, main_agent, conversation_history, slots, chatVars>>

(***************************************************************************)
(* ChatController.process_message                                          *)
(***************************************************************************)

\* the course table read by CursoModel.get_all_cursos
Catalog == {[id |-> "c1", titulo |-> {"python", "para", "ia"}]}

\* re.search(r'curso\s+([\w\s]+)', message, re.IGNORECASE)
ExtractCursoNombre(message) ==
    IF message.text = "curso python" THEN "python" ELSE NoneV

\* _extract_curso_id: the first course whose title contains the name
ExtractCursoId(message) ==
    LET nombre == ExtractCursoNombre(message)
    IN IF nombre = NoneV THEN NoneV
       ELSE IF \E c \in Catalog : nombre \in c.titulo
            THEN (CHOOSE c \in Catalog : nombre \in c.titulo).id
            ELSE NoneV

\* _is_detalle_query
IsDetalleQuery(message) ==
    \E w \in {"precio", "idioma", "nivel", "cupo"} : Contains(Lower(message), w)

\* the parameters of LangroidAgentService.process_message
ServiceParams == {"message", "user_id", "persist_conversation"}

\* the keyword arguments ChatController passes to it (lines 45-58)
ChatCallKwargs(with_curso) ==
    {"message", "user_id", "persist_conversation", "context"}
        \cup (IF with_curso THEN {"curso_id"} ELSE {})

\* Python raises TypeError for a keyword argument the function does not take
BindError(kwargs) == kwargs \ ServiceParams # {}

ChatUsers == Users \cup {NoneV}

TurnsAppended == Len(appended["u1"]) + Len(appended["u2"])

\* ChatController.process_message(message, user_id)
ChatProcessMessage(messages, users, max_turns) ==
    \E slot \in Slots, message \in messages, user \in users, db_error \in BOOLEAN :
       LET rc == IF user # NoneV
                 THEN [recent_context EXCEPT
                          ![user] = LastTurns(Append(@, UserTurn(message)))]
                 ELSE recent_context
           ap == IF user # NoneV
                 THEN [appended EXCEPT ![user] = Append(@, UserTurn(message))]
                 ELSE appended
           needs_db == ExtractCursoNombre(message) # NoneV
           curso_id == ExtractCursoId(message)
           curso_actual == IF Truthy(curso_id) THEN curso_id
                           ELSE user_course_context[user]
           kwargs == ChatCallKwargs(IsDetalleQuery(message) /\ Truthy(curso_actual))
           e == [NoEvent EXCEPT !.op = "chat", !.user = user, !.key = CacheKey(message)]
       IN /\ slots[slot].phase = "idle"
          /\ \A other \in Slots : slots[other].phase = "idle" => slot <= other
          /\ TurnsAppended < max_turns
          /\ db_error => needs_db
          /\ IF db_error
             THEN /\ recent_context' = rc
                  /\ appended' = ap
                  /\ ev' = [e EXCEPT !.failure = "db",
                                     !.controller = ControllerExcept("db")]
                  /\ UNCHANGED <<user_course_context, cache, stored_at, slots>>
             ELSE /\ user_course_context' =
                        IF Truthy(curso_id)
                        THEN [user_course_context EXCEPT ![user] = curso_id]
                        ELSE user_course_context
                  /\ IF BindError(kwargs)
                     THEN /\ recent_context' = rc
                          /\ appended' = ap
                          /\ ev' = [e EXCEPT !.service = Raised("TypeError"),
                                             !.controller = ControllerExcept("TypeError")]
                          /\ UNCHANGED <<cache, stored_at, slots>>
                     ELSE \E env \in Envs(message), store_error \in BOOLEAN :
                             /\ EnvSeen(message, user, env)
                             /\ TurnStart(slot, "chat", message, user, env, store_error,
                                          rc, ap)
          /\ UNCHANGED <<now, main_agent, conversation_history>>

(***************************************************************************)
(* The agent pipeline: turns through LangroidAgentService with every       *)
(* failure of the environment, and a first turn of the controller          *)
(***************************************************************************)
ChatMessages == {Msg(t, FALSE, FALSE) : t \in Texts}

Init ==
    /\ now = 0
    /\ cache = [k \in CacheKeys |-> NoEntry]
    /\ stored_at = [k \in CacheKeys |-> -1]
    /\ main_agent \in {"agent", NoneV}
    /\ \E h \in {"absent", "nonempty"} :
          conversation_history = [a \in AgentNames |-> h]
    /\ slots = [s \in Slots |-> IdleSlot]
    /\ recent_context = [u \in Users |-> <<>>]
    /\ user_course_context = [u \in Users \cup {NoneV} |-> NoneV]
    /\ appended = [u \in Users |-> <<>>]
    /\ ev = NoEvent
    /\ results = <<>>
    /\ tool_output = NoOutput
    /\ SyncIdle

AgentTurn ==
    /\ LangroidProcessMessage({Msg("curso python", FALSE, FALSE)}, {"u1", NoneV})
    /\ UNCHANGED <<reconVars, syncVars, wsVars>>

Generation ==
    /\ LlmResponse(LlmOutcomes)
    /\ UNCHANGED <<reconVars, syncVars, wsVars>>

GenerationRetry ==
    /\ LlmRetryResponse
    /\ UNCHANGED <<reconVars, syncVars, wsVars>>

AgentChatTurn ==
    /\ ChatProcessMessage({Msg("precio", FALSE, FALSE)}, {"u1"}, MaxAgentChatTurns)
    /\ UNCHANGED <<reconVars, syncVars, wsVars>>

Next == AgentTurn \/ Generation \/ GenerationRetry \/ AgentChatTurn

Spec == Init /\ [][Next]_vars

\* ---- what the claims about the agent pipeline speak of ----

\* the results handed over by the step just taken: what handle_user_message
\* gave the service (when it was called) and what the service gave the websocket
\* route or HypatiaLangroidAgent, or what the controller gave its route
TransportResults ==
    IF ev.op = "finish" THEN {ev.agent, ev.service} \ {NoResult}
    ELSE IF ev.op = "chat" THEN {ev.controller}
    ELSE {}

\* C3 as claimed: when a first generation call fails with a context-too-long
\* error, the turn window of the user of that turn is cleared before the retry.
C3_WindowClearedOnReset ==
    (ev.op = "context_reset" /\ ev.user \in Users) => recent_context[ev.user] = <<>>

\* C7: no step of a turn hands a raised exception to a transport: the agent,
\* the service and the controller return a result, and a result with the error
\* status carries one of the fixed apologetic replies.
C7_NoExceptionEscapes ==
    \A r \in TransportResults :
       /\ ~r.raised
       /\ r.status \in {"reply", "success", "error"}
       /\ r.status = "error" => r.reply \in FixedReplies

\* C7 witness: a generation call raised, the agent answered with its apology and
\* the service returned it as a result
C7_Witness ==
    /\ ev.op = "finish"
    /\ ev.gen_calls = 1
    /\ ev.agent = Returned("reply", AgentApology)
    /\ ev.service = Returned("success", AgentApology)

\* C8 as claimed: a turn that met a failure of the embedder, the vector search
\* or the cache I/O still makes its generation call.
C8_FailureStillGenerates ==
    (ev.op \in {"start", "finish"} /\ ev.failure \in {"embed", "search", "cache"})
        => ev.gen_calls >= 1


(***************************************************************************)
(* The retrieval cache over time: turns of callers without user id, with   *)
(* the queries in several spellings, while the clock advances              *)
(***************************************************************************)
CacheMessages ==
    {Msg("curso python", FALSE, FALSE), Msg("curso python", TRUE, TRUE),
     Msg("promocion", FALSE, FALSE)}

InitCache ==
    /\ OrchIdle
    /\ results = <<>>
    /\ tool_output = NoOutput
    /\ SyncIdle

\* the query in capitals with surrounding blanks
Shouted == Msg("curso python", TRUE, TRUE)

\* callers without user id write the plain spellings, user u1 the other one
CacheTurn ==
    /\ \/ LangroidProcessMessage(CacheMessages \ {Shouted}, {NoneV})
       \/ LangroidProcessMessage({Shouted}, {"u1"})
    /\ UNCHANGED <<reconVars, syncVars, wsVars>>

CacheGeneration ==
    /\ LlmResponse({"ok"})
    /\ UNCHANGED <<reconVars, syncVars, wsVars>>

ClockTick ==
    /\ Tick
    /\ UNCHANGED <<reconVars, syncVars, wsVars>>

NextCache == CacheTurn \/ CacheGeneration \/ ClockTick

SpecCache == InitCache /\ [][NextCache]_vars

\* ---- what the claims about the retrieval cache speak of ----

\* an entry for the key of the turn was written less than CacheTTL seconds ago
WrittenWithinTTL == ev.fresh_since # -1 /\ now < ev.fresh_since + CacheTTL

\* C1: a turn whose query was stored less than 600 seconds ago is served from
\* the cache and performs no retrieval; a turn whose query was never stored,
\* or was stored 600 seconds ago or earlier, performs a retrieval.
C1_OneRetrievalPerTTL ==
    ev.op = "start" =>
        /\ ev.cache_hit <=> WrittenWithinTTL
        /\ ev.retrieved <=> ~WrittenWithinTTL
        /\ ev.cache_hit => ev.knowledge = cache[ev.key].value

\* C1 witness: a second turn with the query, 300 seconds after the first one
\* stored it, is served from the cache
C1_Witness ==
    /\ ev.op = "start"
    /\ ev.fresh_since = 0
    /\ now > 0
    /\ ev.cache_hit
    /\ ~ev.retrieved

\* C2 as claimed: a turn whose retrieval failed (embedding error or search
\* error) writes no entry to the cache.
C2_FailureNotCached ==
    (ev.op = "start" /\ ev.failure \in {"embed", "search"}) => ~ev.stored


(***************************************************************************)
(* The controller alone: turns of two users and of callers without user id *)
(***************************************************************************)
InitChat ==
    /\ OrchIdle
    /\ results = <<>>
    /\ tool_output = NoOutput
    /\ SyncIdle

ChatTurn ==
    /\ ChatProcessMessage(ChatMessages, ChatUsers, MaxTurns)
    /\ UNCHANGED <<reconVars, syncVars, wsVars>>

NextChat == ChatTurn

SpecChat == InitChat /\ [][NextChat]_vars

\* ---- what the claims about the turn window speak of ----

\* the last n elements of a sequence, in order
Suffix(turns, n) ==
    LET k == IF Len(turns) < n THEN Len(turns) ELSE n
    IN [i \in 1..k |-> turns[Len(turns) - k + i]]

\* C4: the window of every user holds at most 4 turns, and they are the turns
\* appended last for that user, in the order they were appended.
C4_WindowBounded ==
    \A u \in Users :
       /\ Len(recent_context[u]) <= 4
       /\ recent_context[u] = Suffix(appended[u], 4)

\* C4 witness: a user for whom 5 turns were appended and whose window holds
\* the last 4 of them
C4_Witness ==
    /\ Len(appended["u1"]) = 5
    /\ Len(recent_context["u1"]) = 4
    /\ recent_context["u1"][1] = appended["u1"][2]
    /\ appended["u1"][1] # appended["u1"][2]

MaxItems == 2

\* the last day of the calendar
MaxDay == 2

\* how many sync calls are made
MaxSyncRuns == 2

Days == 1..MaxDay

\* producto.stock
Stocks == {0, 5}

\* the payload upsert_document writes for a producto (lines 112-128, with the
\* metadata of data_sync.py lines 127-140)
ProductoPoint(row) ==
    [doc_id |-> ProductoDocId(row.id), tipo |-> SyncType("productos"), id |-> row.id,
     disponible |-> (row.stock > 0), activa |-> TRUE, meta |-> <<row.stock>>]

\* ... for a categoria: disponible and activa take their defaults
CategoriaPoint(row) ==
    [doc_id |-> CategoriaDocId(row.id), tipo |-> SyncType("categorias"), id |-> row.id,
     disponible |-> TRUE, activa |-> TRUE, meta |-> <<>>]

\* a promocion that is always written as active
PromocionPointMutAlwaysActive(row, day) ==
    [doc_id |-> PromocionDocId(row.id), tipo |-> SyncType("promociones"), id |-> row.id,
     disponible |-> TRUE, activa |-> TRUE, meta |-> <<row.inicio, row.fin>>]

\* ... for a promocion: is_active = fechaInicio <= today <= fechaFin
PromocionPoint(row, day) ==
    [doc_id |-> PromocionDocId(row.id), tipo |-> SyncType("promociones"), id |-> row.id,
     disponible |-> TRUE, activa |-> (row.inicio <= day /\ day <= row.fin),
     meta |-> <<row.inicio, row.fin>>]

PointOf(kind, row, day) ==
    CASE kind = "productos"   -> ProductoPoint(row)
      [] kind = "categorias"  -> CategoriaPoint(row)
      [] kind = "promociones" -> PromocionPoint(row, day)

\* the full queries: every row of the table
SelectAll(tables, kind) == tables[kind]

\* the incremental queries: WHERE fechaActualizacion >= since for productos and
\* categorias, WHERE fechaInicio <= CURDATE() AND fechaFin >= CURDATE() for
\* promociones
SelectIncremental(tables, kind, since, day) ==
    IF kind = "promociones"
    THEN SelectSeq(tables[kind], LAMBDA r : r.inicio <= day /\ r.fin >= day)
    ELSE SelectSeq(tables[kind], LAMBDA r : r.updated >= since)

\* the %s placeholders of the three incremental queries
IncrementalPlaceholders(kind) == IF kind = "promociones" THEN 0 ELSE 1

\* cursor.execute(sql, (since,)): the driver raises when the arguments do not
\* match the placeholders of the query
ExecuteRaises(placeholders, nargs) == placeholders # nargs

\* last_sync_time = None
NoTime == 0

\* last_sync_time, or the last 24 hours when none is given
SinceOf(last_sync_time, day) ==
    IF last_sync_time = NoTime THEN day - 1 ELSE last_sync_time

NextKind(pc) ==
    CASE pc = "start"       -> "productos"
      [] pc = "productos"   -> "categorias"
      [] pc = "categorias"  -> "promociones"

\* a call that has not fetched anything yet
NewJob(op, since, qdrant_up) ==
    [op |-> op, pc |-> "start", since |-> since, qdrant_up |-> qdrant_up,
     queue |-> <<>>, count |-> 0, result |-> NoSyncResult,
     \* history
     upserted |-> 0, upsert_failed |-> FALSE, cause |-> "none",
     items_read |-> FALSE, promos_tried |-> FALSE, clean |-> TRUE]

\* an error that is not reported
DataSyncExceptMutSuccess(job, cause) ==
    [job EXCEPT !.pc = "done", !.queue = <<>>, !.cause = cause,
                !.result = [status |-> "success", synced_count |-> job.count]]

\* `except Exception as e:` of sync_all_data / sync_incremental
DataSyncExcept(job, cause) ==
    [job EXCEPT !.pc = "done", !.queue = <<>>, !.cause = cause, !.result = SyncError]

\* the return of sync_all_data / sync_incremental: the total of the counts
DataSyncReturn(job) ==
    [job EXCEPT !.pc = "done",
                !.result = [status |-> "success", synced_count |-> job.count]]

\* from the end of one loop to the first row of the next kind that has rows, or
\* to the return: open the connection and run the query of each kind on the way
RECURSIVE Advance(_, _, _, _)
Advance(job, tables, day, db_up) ==
    IF job.pc = "done" \/ job.queue # <<>> THEN job
    ELSE IF job.pc = "promociones" THEN DataSyncReturn(job)
    ELSE LET kind == NextKind(job.pc)
             tried == [job EXCEPT !.promos_tried = @ \/ kind = "promociones"]
         IN IF ~db_up THEN DataSyncExcept(tried, "unreachable")
            ELSE IF job.op = "incremental"
                    /\ ExecuteRaises(IncrementalPlaceholders(kind), 1)
            THEN DataSyncExcept(tried, "bind")
            ELSE Advance(
                   [tried EXCEPT
                      !.pc = kind,
                      !.queue = IF job.op = "full" THEN SelectAll(tables, kind)
                                ELSE SelectIncremental(tables, kind, job.since, day),
                      !.items_read = @ \/ kind = "productos"],
                   tables, day, db_up)

\* a sync_all_data that returned success and whose upserts all succeeded
FullAndWhole(job) ==
    job.op = "full" /\ job.result.status = "success" /\ ~job.upsert_failed

Running(job) == job.pc # "done"

\* a call that returned long ago: its locals are gone
ReturnedJob == [NewJob("full", NoTime, TRUE) EXCEPT !.pc = "done"]

Forget(js) == [j \in DOMAIN js |-> IF Running(js[j]) THEN js[j] ELSE ReturnedJob]

\* the source changed while these calls were running
Dirty(js) == [j \in DOMAIN js |-> IF Running(js[j]) THEN [js[j] EXCEPT !.clean = FALSE]
                                  ELSE ReturnedJob]

\* what a step of call j leaves in the history
HistAfter(j, job, idx, failed) ==
    LET done == job.pc = "done"
        first == done /\ hist.finished = 0
    IN [hist EXCEPT
          !.last = IF done THEN <<"done", j>> ELSE <<"step", j>>,
          !.finished = IF done THEN @ + 1 ELSE @,
          !.failures = IF failed THEN @ + 1 ELSE @,
          !.first_index = IF first /\ FullAndWhole(job) THEN idx ELSE @,
          !.first_full = IF first THEN FullAndWhole(job) ELSE @]

\* no call made yet
InitCalls ==
    /\ WsIdle
    /\ today = 1
    /\ jobs = <<>>
    /\ hist = [last |-> <<"none", 0>>, finished |-> 0, failures |-> 0, changed |-> {},
               clean |-> TRUE, first_index |-> {}, first_full |-> FALSE]
    /\ source = [productos |-> <<>>, categorias |-> <<>>, promociones |-> <<>>]
    /\ points = {}
    /\ sync_pc = "idle"
    /\ sync_cursor = 1
    /\ sync_counts = NoCounts
    /\ sync_result = NoSyncResult
    /\ sync_upserted = {}
    /\ sync_failures = 0
    /\ results = <<>>
    /\ tool_output = NoOutput
    /\ OrchIdle

\* the tables: productos 1..MaxItems, one categoria and one promocion
Tables ==
    {[productos |-> [i \in 1..MaxItems |-> [id |-> i, stock |-> stock[i], updated |-> 1]],
      categorias |-> <<[id |-> 1, updated |-> 1]>>,
      promociones |-> <<[id |-> 1, inicio |-> w[1], fin |-> w[2], updated |-> 1]>>] :
        stock \in [1..MaxItems -> Stocks],
        w \in {x \in Days \X Days : x[1] <= x[2]}}

\* the collection after a sync_all_data of the tables in which nothing failed
FullIndex(tables, day) ==
    UNION {{PointOf(kind, tables[kind][i], day) : i \in DOMAIN tables[kind]} :
              kind \in {"productos", "categorias", "promociones"}}

InitData ==
    /\ db \in Tables
    /\ index = {}
    /\ InitCalls

\* the collection is empty or holds what a sync of earlier data left
InitResync ==
    /\ db \in Tables
    /\ index \in {{}} \cup {FullIndex(t, 1) : t \in Tables}
    /\ InitCalls

dataFrame == <<source, points, sync_pc, sync_cursor, sync_counts, sync_result,
               sync_upserted, sync_failures, reconVars, orchVars, wsVars>>

\* sync_all_data (lines 18-29) up to the first awaited embedding:
\* create_collection_if_not_exists raises when Qdrant cannot be reached
SyncAllDataCall(others) ==
    /\ Len(jobs) < MaxSyncRuns
    /\ Cardinality({j \in DOMAIN jobs : Running(jobs[j])}) <= others
    /\ \E qdrant_up \in BOOLEAN, db_up \in BOOLEAN :
          LET j == Len(jobs) + 1
              job0 == NewJob("full", NoTime, qdrant_up)
              job == IF ~qdrant_up THEN DataSyncExcept(job0, "unreachable")
                     ELSE Advance(job0, db, today, db_up)
          IN /\ (~qdrant_up) => db_up
             /\ jobs' = Append(Forget(jobs), job)
             /\ hist' = HistAfter(j, job, index, FALSE)
    /\ UNCHANGED <<db, today, index>>

\* sync_incremental(last_sync_time) (lines 56-67) up to the first awaited
\* embedding; Qdrant is not contacted before the first upsert; last_sync_time
\* is a time of the past, or None
SyncIncrementalCall(others) ==
    /\ Len(jobs) < MaxSyncRuns
    /\ Cardinality({j \in DOMAIN jobs : Running(jobs[j])}) <= others
    /\ \E last_sync_time \in (1..today) \cup {NoTime}, qdrant_up \in BOOLEAN, db_up \in BOOLEAN :
          LET j == Len(jobs) + 1
              job0 == NewJob("incremental", SinceOf(last_sync_time, today), qdrant_up)
              job == Advance(job0, db, today, db_up)
          IN /\ jobs' = Append(Forget(jobs), job)
             /\ hist' = HistAfter(j, job, index, FALSE)
    /\ UNCHANGED <<db, today, index>>

\* one iteration of a for loop (lines 110-142, 159-176, 202-229 and their
\* incremental twins): generate_embedding raises out of the call;
\* upsert_document returns False on failure and the loop counts the row anyway;
\* after the last row the call goes on to the next kind or returns
SyncRecordStep ==
    /\ \E j \in DOMAIN jobs, embed_ok \in BOOLEAN, upsert_ok \in BOOLEAN, db_up \in BOOLEAN :
          LET job == jobs[j]
              row == Head(job.queue)
              written == job.qdrant_up /\ upsert_ok
              failed == ~embed_ok \/ ~upsert_ok
              after == [job EXCEPT !.queue = Tail(@), !.count = @ + 1,
                                   !.upserted = IF written THEN @ + 1 ELSE @,
                                   !.upsert_failed = @ \/ ~written]
              next == IF ~embed_ok THEN DataSyncExcept(job, "embed")
                      ELSE Advance(after, db, today, db_up)
              idx == IF embed_ok /\ written
                     THEN UpsertPoint(index, PointOf(job.pc, row, today))
                     ELSE index
          IN /\ job.pc \in {"productos", "categorias", "promociones"}
             /\ job.queue # <<>>
             /\ failed => hist.failures < MaxSyncFailures
             /\ (~embed_ok) => (upsert_ok /\ db_up)
             /\ (~db_up) => (Len(job.queue) = 1 /\ job.pc # "promociones")
             /\ jobs' = [Forget(jobs) EXCEPT ![j] = next]
             /\ index' = idx
             /\ hist' = HistAfter(j, next, idx, failed)
    /\ UNCHANGED <<db, today>>

\* a CRUD route updates the stock of a producto; its fechaActualizacion follows
UpdateStock ==
    /\ hist.last[1] # "none"
    /\ \E i \in DOMAIN db.productos, stock \in Stocks :
          /\ i \notin hist.changed
          /\ stock # db.productos[i].stock
          /\ db' = [db EXCEPT !.productos[i].stock = stock,
                              !.productos[i].updated = today]
          /\ hist' = [hist EXCEPT !.last = <<"change", 0>>, !.changed = @ \cup {i},
                                  !.clean = FALSE]
    /\ jobs' = Dirty(jobs)
    /\ UNCHANGED <<today, index, dataFrame>>

\* midnight
NextDay ==
    /\ hist.last[1] # "none"
    /\ today < MaxDay
    /\ today' = today + 1
    /\ hist' = [hist EXCEPT !.last = <<"change", 0>>, !.clean = FALSE]
    /\ jobs' = Dirty(jobs)
    /\ UNCHANGED <<db, index, dataFrame>>

\* ---- one call at a time over a source that changes ----
SyncAllData ==
    /\ SyncAllDataCall(0)
    /\ UNCHANGED dataFrame

SyncIncremental ==
    /\ SyncIncrementalCall(0)
    /\ UNCHANGED dataFrame

SyncRecord ==
    /\ SyncRecordStep
    /\ UNCHANGED dataFrame

NextData == SyncAllData \/ SyncIncremental \/ SyncRecord \/ UpdateStock \/ NextDay

SpecData == InitData /\ [][NextData]_vars

\* ---- sync_all_data called again, also while a call is running, over a
\* source that does not change; the collection may hold what an earlier sync
\* of other data left ----
SyncAllDataAgain ==
    /\ SyncAllDataCall(1)
    /\ UNCHANGED dataFrame

NextResync == SyncAllDataAgain \/ SyncRecord

SpecResync == InitResync /\ [][NextResync]_vars


\* ---- what the claims about the synchronizer speak of ----

\* no two points of the collection share an id
UniqueDocIds(idx) == \A p \in idx, q \in idx : p.doc_id = q.doc_id => p = q

\* the rows of the three tables
SourceRecords(tables) ==
    UNION {{<<kind, tables[kind][i].id>> : i \in DOMAIN tables[kind]} :
              kind \in {"productos", "categorias", "promociones"}}

\* C11: once a sync_all_data has returned with every record upserted, a further
\* sync_all_data over the same source (started after it or while it ran) leaves
\* the collection as the first one left it: the same points with the same
\* payload, one point per source record and no two points with the same id.
C11_ResyncSameIndex ==
    (hist.finished >= 2 /\ hist.first_full) =>
        /\ index = hist.first_index
        /\ UniqueDocIds(index)
        /\ Cardinality(index) = Cardinality(SourceRecords(db))
        /\ \A r \in SourceRecords(db) :
              \E p \in index : p.tipo = SyncType(r[1]) /\ p.id = r[2]

\* C11 witness: two calls have returned, the later one with success, over a
\* collection that held other payloads before the first
C11_Witness ==
    /\ hist.finished = 2
    /\ hist.first_full
    /\ hist.last[1] = "done"
    /\ jobs[hist.last[2]].result.status = "success"
    /\ jobs[hist.last[2]].upserted = Cardinality(SourceRecords(db))
    /\ index = hist.first_index
    /\ Cardinality(index) = MaxItems + 2

\* the call that returned in the last step
LastReturned == jobs[hist.last[2]]

\* the call read the productos from a source that did not change while it ran,
\* with Qdrant reachable, and was not cut short by its environment
ReadTheProductos(job) ==
    /\ job.items_read
    /\ job.clean
    /\ job.qdrant_up
    /\ job.cause \in {"none", "bind"}

\* C12 as claimed: immediately after a sync call (full or incremental) that read
\* the productos has returned, every producto point of the collection has
\* disponible = (stock > 0) for the stock that call read from the source.
C12_AvailableAfterSync ==
    (hist.last[1] = "done" /\ ReadTheProductos(LastReturned)) =>
        \A p \in index :
           p.tipo = SyncType("productos") =>
              \A i \in DOMAIN db.productos :
                 db.productos[i].id = p.id => p.disponible = (db.productos[i].stock > 0)


\* the call reached its promociones step on a day that did not change while it
\* ran, with Qdrant reachable, and was not cut short by its environment
TriedThePromociones(job) ==
    /\ job.promos_tried
    /\ job.clean
    /\ job.qdrant_up
    /\ job.cause \in {"none", "bind"}

\* C13 as claimed: immediately after a sync call (full or incremental) has
\* returned, every promocion point of the collection has
\* activa = (fechaInicio <= today <= fechaFin) for the day of that call, also a
\* promocion whose period ended since the previous sync.
C13_ActiveAfterSync ==
    (hist.last[1] = "done" /\ TriedThePromociones(LastReturned)) =>
        \A p \in index :
           p.tipo = SyncType("promociones") =>
              \A i \in DOMAIN db.promociones :
                 db.promociones[i].id = p.id =>
                    p.activa = (db.promociones[i].inicio <= today
                                  /\ today <= db.promociones[i].fin)


\* C14 as claimed: a sync_all_data in which the embedding or the upsert of single
\* records failed, with the source and Qdrant reachable, is not aborted: it
\* returns success and its synced_count is the number of records that were
\* upserted.
C14_PartialCount ==
    (hist.last[1] = "done" /\ LastReturned.op = "full"
       /\ LastReturned.cause \in {"none", "embed"}) =>
        /\ LastReturned.result.status = "success"
        /\ LastReturned.result.synced_count = LastReturned.upserted


C16_TransportFailureDistinct ==
    (ev.op = "start" /\ ev.retrieved /\ ev.failure = "search") =>
        ev.hits # SearchSimilar(FALSE, <<>>)


\* C17: a turn with a general query that missed the cache and whose search
\* returned 4 curso hits and 1 categoria hit hands its generation call exactly
\* the 4 curso blocks, in the order of the hits, as the retrieval section of its
\* context; and the turn ends with a reply, not with a raised exception.
C17_FourItemBlocks ==
    /\ (ev.op = "start" /\ ev.retrieved /\ ev.failure = "none"
          /\ Cardinality(HitsOfKind(ev.hits, "curso")) = 4
          /\ Cardinality(HitsOfKind(ev.hits, "categoria")) = 1) =>
           /\ ~ev.cache_hit
           /\ ev.knowledge.kind = "blocks"
           /\ BlockHits(ev.knowledge) = <<1, 2, 4, 5>>
           /\ RenderedAs(ev.knowledge, "curso")
           /\ \A i \in DOMAIN ev.knowledge.blocks :
                 ev.knowledge.blocks[i].name = ev.hits[ev.knowledge.blocks[i].hit].payload.titulo
           /\ ev.gen_calls = 1
    /\ (ev.op = "finish" /\ ev.agent # NoResult) =>
           (~ev.agent.raised /\ ev.agent.status = "reply")

\* C17 witness: such a turn is waiting for its generation call with the 4 blocks
C17_Witness ==
    /\ ev.op = "start"
    /\ ~ev.cache_hit
    /\ ev.hits = CourseDocs
    /\ Len(ev.knowledge.blocks) = 4
    /\ ev.gen_calls = 1
    /\ \E s \in Slots : slots[s].phase = "gen1"


\* the key of a text that is already stripped and in lower case
NormalKey(text) == [prefix |-> "cursos:busqueda:", digest |-> Msg(text, FALSE, FALSE)]

\* C20: the key of a turn is the key of the stripped, lower-cased text of its
\* message, whoever sends it and whenever: two spellings of one query use the
\* same key, only such keys ever hold an entry, and a turn is served the entry
\* stored under that key by any earlier turn.
C20_KeyOfNormalizedText ==
    /\ ev.op = "start" =>
          /\ \E t \in Texts : ev.key = NormalKey(t)
          /\ ev.user = "u1" => ev.key = NormalKey("curso python")
          /\ ev.cache_hit => ev.knowledge = cache[NormalKey(ev.key.digest.text)].value
    /\ \A k \in CacheKeys :
          cache[k] # NoEntry => k = NormalKey(k.digest.text)

\* C20 witness: user u1, writing the query in capitals with blanks at time 300,
\* is served the entry stored at time 0 under the key of the plain spelling
C20_Witness ==
    /\ ev.op = "start"
    /\ ev.user = "u1"
    /\ ev.cache_hit
    /\ now = TickStep
    /\ stored_at[NormalKey("curso python")] = 0
    /\ ev.knowledge = cache[NormalKey("curso python")].value
    /\ cache[[prefix |-> "cursos:busqueda:", digest |-> Shouted]] = NoEntry


(***************************************************************************)
(* The force-reset of a conversation: POST /api/v1/reset-conversation and   *)
(* ChatController.reset_conversation_context, between turns of the          *)
(* controller                                                              *)
(***************************************************************************)

\* turns appended to the windows in a run with resets
MaxResetTurns == 3

\* LangroidAgentService.reset_conversation_context(user_id): when there is a
\* main agent, _initialize_agents builds the agents anew (a new agent has no
\* history; main_agent is None when the factory raises); user_id is only logged
ResetConversationContext(users) ==
    \E user \in users, create_ok \in BOOLEAN :
       /\ main_agent = NoneV => create_ok
       /\ main_agent' = IF main_agent = NoneV \/ ~create_ok THEN NoneV ELSE "agent"
       /\ conversation_history' =
             IF main_agent # NoneV /\ create_ok
             THEN [a \in AgentNames |-> ClearHistory(conversation_history[a])]
             ELSE conversation_history
       /\ ev' = [NoEvent EXCEPT !.op = "reset", !.user = user]
       /\ UNCHANGED <<now, cache, stored_at, slots, recent_context,
                      user_course_context, appended>>

InitReset == Init

ResetChatTurn ==
    /\ ChatProcessMessage(ChatMessages, Users, MaxResetTurns)
    /\ UNCHANGED <<reconVars, syncVars, wsVars>>

ResetContext ==
    /\ ResetConversationContext(ChatUsers)
    /\ UNCHANGED <<reconVars, syncVars, wsVars>>

NextReset == ResetChatTurn \/ ResetContext

SpecReset == InitReset /\ [][NextReset]_vars

\* C18 as claimed: reset_conversation_context(U) leaves the turn window of U
\* empty and U without a last-referenced course, and leaves the window of every
\* other user as the turns of that user made it.
C18_ResetClearsUser ==
    (ev.op = "reset" /\ ev.user \in Users) =>
        /\ recent_context[ev.user] = <<>>
        /\ user_course_context[ev.user] = NoneV
        /\ \A v \in Users \ {ev.user} :
              recent_context[v] = Suffix(appended[v], WindowSize)


(***************************************************************************)
(* What the routes deliver: POST /chats/message and the websocket          *)
(***************************************************************************)

\* process_message of ChatRoutes: an error result becomes
\* HTTPException(500, detail=result["message"]), any other the response body
ChatRouteResponse(result) ==
    IF result.status = "error" THEN [code |-> 500, body |-> result.message]
    ELSE [code |-> 200, body |-> Text(result.reply, "")]

\* websocket_chat: the "reply" of the result dict goes into data.message
WebsocketResponse(result) == [code |-> 200, body |-> Text(result.reply, "")]

\* what the step just taken delivered to the user
Delivered ==
    (IF ev.op \in {"chat", "finish"} /\ ev.controller # NoResult
     THEN {ChatRouteResponse(ev.controller)} ELSE {})
    \cup (IF ev.op = "finish" /\ ev.controller = NoResult /\ ev.service # NoResult
          THEN {WebsocketResponse(ev.service)} ELSE {})

\* the generated answer and the fixed apologies and notices
NaturalReplies ==
    {Text(r, "") : r \in FixedReplies \cup {GeneratedAnswer}} \cup {UnavailableMessage}

\* C19 as claimed: whatever happens to a message, what is delivered to the user
\* is the generated answer or one of the fixed apologies and notices; the text
\* of a raised exception is in nothing that is delivered.
C19_NoExceptionText ==
    \A d \in Delivered :
       /\ d.body.exc = ""
       /\ d.body \in NaturalReplies


\* ---- what the claims about the searches of a turn speak of ----

ModifiedSince(tables, since) ==
    UNION {{<<kind, tables[kind][i].id>> :
               i \in {n \in DOMAIN tables[kind] : tables[kind][n].updated >= since}} :
              kind \in {"productos", "categorias", "promociones"}}

\* C23 as claimed: a sync_incremental(since) that met no failure of its
\* environment returns success with synced_count the number of rows of the
\* three tables modified at `since` or later, and each of them is in the
\* collection.
C23_IncrementalBySince ==
    (hist.last[1] = "done" /\ LastReturned.op = "incremental"
       /\ LastReturned.clean /\ LastReturned.qdrant_up
       /\ ~LastReturned.upsert_failed
       /\ LastReturned.cause \in {"none", "bind"}) =>
        /\ LastReturned.result.status = "success"
        /\ LastReturned.result.synced_count =
               Cardinality(ModifiedSince(db, LastReturned.since))
        /\ \A r \in ModifiedSince(db, LastReturned.since) :
              \E p \in index : p.tipo = SyncType(r[1]) /\ p.id = r[2]


\* ---- what the claims about the sentinel of the reconciler speak of ----

\* C24: what handle returns is never the empty string (the join of no block):
\* an output of blocks holds at least one block, and when the search returned
\* no hit, or no hit of a tallied kind, so that no block is retained, the
\* output is the 'no results' sentinel.
C24_SentinelNotEmpty ==
    tool_output # NoOutput =>
        /\ tool_output # BlocksOut(<<>>)
        /\ tool_output.kind = "blocks" => Len(tool_output.blocks) >= 1
        /\ (tool_output.kind # "search_error"
              /\ (results = <<>> \/ \A k \in TipoKeys : HitsOfKind(results, k) = {})) =>
               tool_output = NoResults

\* C24 witness: 2 hits, none of a tallied kind, answered with the sentinel
C24_Witness ==
    /\ Len(results) = 2
    /\ \A i \in DOMAIN results : TipoOf(results[i]) \notin TipoKeys
    /\ tool_output = NoResults

\* a turn whose persistence by the service failed: a chat was active and one of
\* the two rows was not written
PersistFailed == ev.chat_id /\ ev.svc_written # <<"usuario", "bot">>

ServiceReplyIndependentOfPersist ==
    (ev.op = "finish" /\ PersistFailed) =>
        ev.service.status = "success" /\ ev.service.reply = ev.agent.reply

\* the rows of a turn in durable chat history, by whoever wrote them
RowsWritten == ev.svc_written \o ev.ctl_written

\* C29 as claimed: a turn of an identified user through ChatController that met
\* no lookup, search or generation failure has its user row and its bot row
\* written exactly once each
C29_PersistedExactlyOnce ==
    (ev.controller # NoResult /\ ev.user \in Users /\ ev.failure = "none") =>
        /\ Cardinality({i \in DOMAIN RowsWritten : RowsWritten[i] = "usuario"}) = 1
        /\ Cardinality({i \in DOMAIN RowsWritten : RowsWritten[i] = "bot"}) = 1

\* the callers of ChatController.process_message: the identified users, and
\* two clients that send no user_id
AnonymousCallers == {"anon1", "anon2"}
Callers == Users \cup AnonymousCallers

\* the user_id argument a caller's request carries
UserIdOf(caller) == IF caller \in AnonymousCallers THEN NoneV ELSE caller

\* self.recent_context.get(user_id, []) (line 36)
WindowOf(rc, caller) ==
    IF UserIdOf(caller) \in DOMAIN rc THEN rc[UserIdOf(caller)] ELSE <<>>

\* self.user_course_context.get(user_id) (line 30)
PointerOf(ucc, caller) == ucc[UserIdOf(caller)]

IdentifiedCallersUntouched ==
    [][ev'.op = "chat" =>
          \A other \in Users \ {ev'.user} :
             /\ recent_context'[other] = recent_context[other]
             /\ user_course_context'[other] = user_course_context[other]]_vars

(***************************************************************************)
(* sync_all_data over tables whose AUTO_INCREMENT ids have passed the      *)
(* offsets of data_sync.py                                                 *)
(***************************************************************************)

\* natural ids a table can hold: a small one, and the first ones past the
\* offsets 1000000 and 2000000
WideIds == {1, 1000001, 2000001}

\* every table holds one row, with any of these ids
InitWide ==
    /\ \E p \in WideIds, c \in WideIds, m \in WideIds :
          source = [productos |-> <<p>>, categorias |-> <<c>>, promociones |-> <<m>>]
    /\ points = {}
    /\ sync_pc = "idle"
    /\ sync_cursor = 1
    /\ sync_counts = NoCounts
    /\ sync_result = NoSyncResult
    /\ sync_upserted = {}
    /\ sync_failures = 0
    /\ DataIdle
    /\ WsIdle
    /\ results = <<>>
    /\ tool_output = NoOutput
    /\ OrchIdle

SpecWide == InitWide /\ [][NextSync]_vars

\* C27 as claimed: whatever the natural ids, two records of different kinds
\* get different VectorIndex ids, and every record whose upsert succeeded is
\* still stored under its id with its own kind
C27_KindsNeverOverwrite ==
    /\ \A r1 \in sync_upserted, r2 \in sync_upserted :
          r1[1] # r2[1] => DocId(r1[1], r1[2]) # DocId(r2[1], r2[2])
    /\ \A r \in sync_upserted :
          \E q \in points :
             q.doc_id = DocId(r[1], r[2]) /\ q.tipo = SyncType(r[1]) /\ q.id = r[2]

\* the document search_similar builds from a stored point: payload 'tipo' is
\* the metadata 'type' the sync wrote (upsert_document), and is read back as
\* the hit's 'tipo' next to the metadata
HitOfPoint(q) ==
    [MkHit(1, [tipo |-> q.tipo, mtype |-> q.tipo, full |-> TRUE]) EXCEPT !.id = q.doc_id]

\* C28 as claimed: every point a sync wrote carries a type tag the reconciler
\* tallies, so a search that returns it counts it toward the predominant kind
\* and renders it as a block
C28_WrittenTagsTallied ==
    \A q \in points :
       /\ q.tipo \in TipoKeys
       /\ TipoPredominante(<<HitOfPoint(q)>>) = q.tipo
       /\ Reconcile(<<HitOfPoint(q)>>).kind = "blocks"

\* the half of it that concerns categories and promotions: holds
CategoriaPromocionTallied ==
    \A q \in points :
       q.tipo # "producto" =>
          /\ q.tipo \in TipoKeys
          /\ Reconcile(<<HitOfPoint(q)>>) =
                BlocksOut(<<FormatBlock(HitOfPoint(q), q.tipo)>>)

(***************************************************************************)
(* /ws/chat: websocket_chat and the WebSocketManager registry              *)
(***************************************************************************)

\* what receive_text can deliver: blank text, a JSON 'ping', a JSON of another
\* type, a user message (JSON or plain text), or a binary frame, for which
\* receive_text raises KeyError
Frames == {"blank", "ping", "other", "message", "binary"}

InitWs ==
    /\ results = <<>>
    /\ tool_output = NoOutput
    /\ SyncIdle
    /\ OrchIdle

wsFrame == <<reconVars, syncVars, orchVars>>

\* WebSocketManager.disconnect: active_connections.discard(websocket)
Disconnect(conns, s) == conns \ {s}

\* the client closes its end, at any time before the handler has exited
ClientDisconnect ==
    \E s \in Sockets :
       /\ ws_pc[s] # "closed"
       /\ ws_client[s] = "open"
       /\ ws_client' = [ws_client EXCEPT ![s] = "gone"]
       /\ ws_ev' = [NoWsEvent EXCEPT !.op = "client_gone", !.socket = s]
       /\ UNCHANGED <<active_connections, ws_pc, wsFrame>>

\* websocket_chat line 16, WebSocketManager.connect: accept, then register;
\* accept raises for a client that is already gone, before the try
WsConnect ==
    \E s \in Sockets :
       /\ ws_pc[s] = "new"
       /\ IF ws_client[s] = "open"
          THEN /\ active_connections' = active_connections \cup {s}
               /\ ws_pc' = [ws_pc EXCEPT ![s] = "receiving"]
               /\ ws_ev' = [NoWsEvent EXCEPT !.op = "connect", !.socket = s]
          ELSE /\ active_connections' = active_connections
               /\ ws_pc' = [ws_pc EXCEPT ![s] = "closed"]
               /\ ws_ev' = [NoWsEvent EXCEPT !.op = "accept_failed", !.socket = s]
       /\ UNCHANGED <<ws_client, wsFrame>>

\* one pass of the loop up to the call of the agent service (lines 20-59):
\* WebSocketDisconnect from receive_text is caught inside the loop, which is
\* left by `break`; frames that are not user messages `continue`; any other
\* exception of receive_text reaches `except Exception` (lines 113-116)
WsReceive ==
    \E s \in Sockets :
       /\ ws_pc[s] = "receiving"
       /\ IF ws_client[s] = "gone"
          THEN /\ ws_pc' = [ws_pc EXCEPT ![s] = "closed"]
               /\ ws_ev' = [NoWsEvent EXCEPT !.op = "break", !.socket = s]
               /\ UNCHANGED <<active_connections, ws_client>>
          ELSE \E frame \in Frames :
                  CASE frame = "message" ->
                         /\ ws_pc' = [ws_pc EXCEPT ![s] = "processing"]
                         /\ ws_ev' = [NoWsEvent EXCEPT !.op = "received", !.socket = s]
                         /\ UNCHANGED <<active_connections, ws_client>>
                    [] frame = "binary" ->
                         /\ active_connections' = Disconnect(active_connections, s)
                         /\ ws_pc' = [ws_pc EXCEPT ![s] = "closed"]
                         /\ ws_client' = [ws_client EXCEPT ![s] = "gone"]
                         /\ ws_ev' = [NoWsEvent EXCEPT !.op = "except", !.socket = s]
                    [] OTHER ->
                         /\ ws_ev' = [NoWsEvent EXCEPT !.op = "continue", !.socket = s]
                         /\ UNCHANGED <<active_connections, ws_pc, ws_client>>
       /\ UNCHANGED wsFrame

\* lines 61-108: the reply (or the error response) is built and sent; send_text
\* raises for a client that is gone, which reaches one of the outer except
\* branches (lines 110-116), both of which call websocket_manager.disconnect
WsReply ==
    \E s \in Sockets :
       /\ ws_pc[s] = "processing"
       /\ IF ws_client[s] = "gone"
          THEN /\ active_connections' = Disconnect(active_connections, s)
               /\ ws_pc' = [ws_pc EXCEPT ![s] = "closed"]
               /\ ws_ev' = [NoWsEvent EXCEPT !.op = "except", !.socket = s]
          ELSE /\ active_connections' = active_connections
               /\ ws_pc' = [ws_pc EXCEPT ![s] = "receiving"]
               /\ ws_ev' = [NoWsEvent EXCEPT !.op = "sent", !.socket = s]
       /\ UNCHANGED <<ws_client, wsFrame>>

\* WebSocketManager.broadcast: send to every registered socket; the ones whose
\* send raises are discarded afterwards
Broadcast ==
    /\ active_connections # {}
    /\ LET disconnected == {s \in active_connections : ws_client[s] = "gone"}
       IN /\ active_connections' = active_connections \ disconnected
          /\ ws_ev' = [NoWsEvent EXCEPT !.op = "broadcast",
                                        !.sent_to = active_connections,
                                        !.dead = disconnected]
    /\ UNCHANGED <<ws_pc, ws_client, wsFrame>>

NextWs ==
    \/ ClientDisconnect
    \/ WsConnect
    \/ WsReceive
    \/ WsReply
    \/ Broadcast

SpecWs == InitWs /\ [][NextWs]_vars

\* C30 as claimed: once the handler of a socket has exited, by whichever path,
\* the socket is no longer registered, and no broadcast is sent to a socket
\* whose handler has exited
C30_ExitedSocketRemoved ==
    /\ \A s \in Sockets : ws_pc[s] = "closed" => s \notin active_connections
    /\ ws_ev.op = "broadcast" => \A s \in ws_ev.sent_to : ws_pc[s] # "closed"

\* the half of it that concerns the exits through the outer except branches: holds
ExceptExitRemoves ==
    ws_ev.op = "except" => ws_ev.socket \notin active_connections

====
